---- MODULE Spec2Model ----
(***************************************************************************)
(* The ImageProcessor component (src/components/ImageProcessor.tsx) as a   *)
(* state machine.  The state is the component's React state plus what is   *)
(* in flight: Image objects whose onload/onerror has not fired yet and     *)
(* processImage promises that handleProcess is awaiting.  Every event      *)
(* handler is one action.  Numbers that the user can type (target width    *)
(* and height) and the pipeline quality are exact rationals <<num, den>>   *)
(* with den > 0 in lowest terms; the source image sizes are powers of two  *)
(* so that the doubles JavaScript computes equal these rationals.          *)
(***************************************************************************)
EXTENDS Integers, Sequences, FiniteSets, TLC

VARIABLES
    file,               \* useState<File | null>: a file name or NULL
    imageUrl,           \* useState<string | null>: the object URL, named by its file
    naturalDimensions,  \* <<>> (null) or <<[width, height]>>
    croppedAreaPixels,  \* <<>> (null) or <<rectangle>>
    targetWidth,        \* rational
    targetHeight,       \* rational
    maintainAspect,     \* BOOLEAN
    quality,            \* integer, UI scale
    format,             \* OutputFormat
    isProcessing,       \* BOOLEAN
    error,              \* a message or NULL
    processed,          \* <<>> (null) or <<ProcessedState>>
    pendingLoads,       \* file name -> number of Image objects still loading it
    inflight,           \* the processImage calls being awaited
    reportedCrop,       \* history: last rectangle the cropper reported since the file was selected
    nEvents             \* history: how many user events there have been

vars == <<file, imageUrl, naturalDimensions, croppedAreaPixels, targetWidth,
          targetHeight, maintainAspect, quality, format, isProcessing, error,
          processed, pendingLoads, inflight, reportedCrop, nEvents>>

\* ---------------------------------------------------------------- bounds
\* user events (file selections, edits of the controls, export clicks) per behaviour
MaxEvents == 5
MaxDim == 2

\* ---------------------------------------------------------------- values
NULL == "null"
None == <<>>
Some(x) == <<x>>

RECURSIVE GCD(_, _)
GCD(a, b) == IF b = 0 THEN a ELSE GCD(b, a % b)

Abs(n) == IF n < 0 THEN 0 - n ELSE n

\* the rational n/d in lowest terms, d > 0
Rat(n, d) == LET g == GCD(Abs(n), d) IN <<n \div g, d \div g>>
Whole(n) == <<n, 1>>
RLe(a, b) == a[1] * b[2] <= b[1] * a[2]
RMax(a, b) == IF RLe(a, b) THEN b ELSE a
RMin(a, b) == IF RLe(a, b) THEN a ELSE b

\* Math.floor in the place of Math.round
MathFloorTimes(value, num, den) ==
    Whole((value[1] * num) \div (value[2] * den))

\* Math.round(value * (num / den)): the nearest integer, halves upwards
MathRoundTimes(value, num, den) ==
    Whole((2 * value[1] * num + value[2] * den) \div (2 * value[2] * den))

\* ---------------------------------------------------------------- files
\* A File is named by its name; type and decoded size hang off the name.
ImageFiles == {"a.png", "b.jpg", "e.gif"}
Files == ImageFiles \cup {"c.pdf", "d.txt"}

\* File.type as <<type, subtype>>
FileType(f) ==
    CASE f = "a.png" -> <<"image", "png">>
      [] f = "b.jpg" -> <<"image", "jpeg">>
      [] f = "e.gif" -> <<"image", "gif">>
      [] f = "c.pdf" -> <<"application", "pdf">>
      [] OTHER       -> <<"text", "plain">>

\* selectedFile.type.startsWith("image/")
StartsWithImage(t) == t[1] = "image"
IsPdfType(t) == t = <<"application", "pdf">>

\* what the browser's decoder makes of the file: e.gif does not decode, the
\* others decode to a raster of positive width and height
Decodes(f) == f \in {"a.png", "b.jpg"}
NaturalWidth(f) == IF f = "a.png" THEN 2 ELSE 1
NaturalHeight(f) == IF f = "a.png" THEN 1 ELSE 2

OUTPUT_FORMATS == {"jpeg", "png", "webp", "pdf"}

InitialQuality == 80
SliderMin == 10
SliderMax == 100
\* values of the range input (the browser keeps them within min..max)
SliderValues == {SliderMin, SliderMax}
\* values handed to setQuality when nothing sanitises the event value
AnyQualityValues == SliderValues \cup {0 - 50, 0, 150}

\* numbers the width and height inputs can deliver: Number("") = 0, negatives and fractions
DimensionInputs == {Whole(n) : n \in (0 - 1)..MaxDim} \cup {<<1, 2>>, <<3, 2>>}

CropRects == { [x |-> 0, y |-> 0, width |-> 1, height |-> 1],
               [x |-> 1, y |-> 0, width |-> 1, height |-> 1] }

ErrInvalidFile == "Please select a valid image or PDF file"
ErrPdfImport == "PDF import is not supported yet. Please select an image format."
ErrLoad == "Could not load the selected image."
ErrNoImage == "Upload an image to get started"
ErrDimensions == "Please provide valid output dimensions"
ErrFallback == "Something went wrong while processing the image"
ErrPipeline == "processImage failed"

\* ---------------------------------------------------------------- initial state
Init ==
    /\ file = NULL
    /\ imageUrl = NULL
    /\ naturalDimensions = None
    /\ croppedAreaPixels = None
    /\ targetWidth = Whole(0)
    /\ targetHeight = Whole(0)
    /\ maintainAspect = TRUE
    /\ quality = InitialQuality
    /\ format = "jpeg"
    /\ isProcessing = FALSE
    /\ error = NULL
    /\ processed = None
    /\ pendingLoads = [f \in ImageFiles |-> 0]
    /\ inflight = {}
    /\ reportedCrop = None
    /\ nEvents = 0

\* ---------------------------------------------------------------- file selection
\* one more user event, while the budget lasts
UserEvent == nEvents < MaxEvents /\ nEvents' = nEvents + 1

\* resetState without setCroppedAreaPixels(null)
resetStateKeepingCrop ==
    /\ UNCHANGED croppedAreaPixels
    /\ quality' = InitialQuality
    /\ format' = "jpeg"
    /\ processed' = None

\* resetState, but for setError(null), which handleFileChange may overwrite
\* in the same batch of updates
resetState ==
    /\ croppedAreaPixels' = None
    /\ quality' = InitialQuality
    /\ format' = "jpeg"
    /\ processed' = None

handleFileChange(selectedFile) ==
    /\ UserEvent
    /\ IF ~StartsWithImage(FileType(selectedFile)) /\ ~IsPdfType(FileType(selectedFile))
       THEN /\ error' = ErrInvalidFile
            /\ UNCHANGED <<file, imageUrl, naturalDimensions, croppedAreaPixels,
                           quality, format, processed, pendingLoads, reportedCrop>>
       ELSE /\ file' = selectedFile
            /\ imageUrl' = selectedFile
            /\ resetState
            /\ reportedCrop' = None
            /\ IF IsPdfType(FileType(selectedFile))
               THEN /\ error' = ErrPdfImport
                    /\ naturalDimensions' = None
                    /\ UNCHANGED pendingLoads
               ELSE /\ error' = NULL
                    /\ pendingLoads' = [pendingLoads EXCEPT ![selectedFile] = @ + 1]
                    /\ UNCHANGED naturalDimensions
    /\ UNCHANGED <<targetWidth, targetHeight, maintainAspect, isProcessing,
                   inflight>>

\* image.onload of an Image created for f by some earlier handleFileChange
imageOnLoad(f) ==
    /\ pendingLoads[f] > 0
    /\ Decodes(f)
    /\ pendingLoads' = [pendingLoads EXCEPT ![f] = @ - 1]
    /\ naturalDimensions' = Some([width |-> NaturalWidth(f), height |-> NaturalHeight(f)])
    /\ targetWidth' = Whole(NaturalWidth(f))
    /\ targetHeight' = Whole(NaturalHeight(f))
    /\ UNCHANGED <<file, imageUrl, croppedAreaPixels, maintainAspect, quality, format,
                   isProcessing, error, processed, inflight, reportedCrop, nEvents>>

\* image.onerror
imageOnError(f) ==
    /\ pendingLoads[f] > 0
    /\ ~Decodes(f)
    /\ pendingLoads' = [pendingLoads EXCEPT ![f] = @ - 1]
    /\ error' = ErrLoad
    /\ naturalDimensions' = None
    /\ UNCHANGED <<file, imageUrl, croppedAreaPixels, targetWidth, targetHeight,
                   maintainAspect, quality, format, isProcessing, processed, inflight,
                   reportedCrop, nEvents>>

\* ---------------------------------------------------------------- controls
\* the controls panel is rendered under {naturalDimensions && ...}
ControlsRendered == naturalDimensions # None
\* the crop section, with the export button: {imageUrl && naturalDimensions && ...}
CropSectionRendered == imageUrl # NULL /\ naturalDimensions # None

handleWidthChange(value) ==
    /\ ControlsRendered
    /\ UserEvent
    /\ naturalDimensions # None
    /\ targetWidth' = value
    /\ targetHeight' = IF maintainAspect
                       THEN MathRoundTimes(value, naturalDimensions[1].height,
                                           naturalDimensions[1].width)
                       ELSE targetHeight
    /\ UNCHANGED <<file, imageUrl, naturalDimensions, croppedAreaPixels, maintainAspect,
                   quality, format, isProcessing, error, processed, pendingLoads,
                   inflight, reportedCrop>>

handleHeightChange(value) ==
    /\ ControlsRendered
    /\ UserEvent
    /\ naturalDimensions # None
    /\ targetHeight' = value
    /\ targetWidth' = IF maintainAspect
                      THEN MathRoundTimes(value, naturalDimensions[1].width,
                                          naturalDimensions[1].height)
                      ELSE targetWidth
    /\ UNCHANGED <<file, imageUrl, naturalDimensions, croppedAreaPixels, maintainAspect,
                   quality, format, isProcessing, error, processed, pendingLoads,
                   inflight, reportedCrop>>

\* the "Lock aspect ratio" checkbox
setMaintainAspect(checked) ==
    /\ ControlsRendered
    /\ UserEvent
    /\ checked # maintainAspect
    /\ maintainAspect' = checked
    /\ UNCHANGED <<file, imageUrl, naturalDimensions, croppedAreaPixels, targetWidth,
                   targetHeight, quality, format, isProcessing, error, processed,
                   pendingLoads, inflight, reportedCrop>>

\* the quality slider, disabled={format === "png"}
setQuality(value) ==
    /\ ControlsRendered
    /\ UserEvent
    /\ format # "png"
    /\ quality' = value
    /\ UNCHANGED <<file, imageUrl, naturalDimensions, croppedAreaPixels, targetWidth,
                   targetHeight, maintainAspect, format, isProcessing, error, processed,
                   pendingLoads, inflight, reportedCrop>>

\* the output-format radio buttons
setFormat(value) ==
    /\ ControlsRendered
    /\ UserEvent
    /\ value # format
    /\ format' = value
    /\ UNCHANGED <<file, imageUrl, naturalDimensions, croppedAreaPixels, targetWidth,
                   targetHeight, maintainAspect, quality, isProcessing, error, processed,
                   pendingLoads, inflight, reportedCrop>>

\* the Cropper reports a rectangle
onCropComplete(croppedPixels) ==
    /\ CropSectionRendered
    /\ UserEvent
    /\ croppedAreaPixels' = Some(croppedPixels)
    /\ reportedCrop' = Some(croppedPixels)
    /\ UNCHANGED <<file, imageUrl, naturalDimensions, targetWidth, targetHeight,
                   maintainAspect, quality, format, isProcessing, error, processed,
                   pendingLoads, inflight>>

\* ---------------------------------------------------------------- export
\* qualityValue with the floor mistyped as 0.1
qualityValueFloorTenth(q) == RMin(RMax(Rat(q, 100), Rat(1, 10)), Whole(1))

\* const qualityValue = Math.min(Math.max(quality / 100, 0.01), 1)
qualityValue(q) == RMin(RMax(Rat(q, 100), Rat(1, 100)), Whole(1))

\* the request's quality taken from the slider without the conversion
requestQualityUnconverted(fmt, q) == IF fmt = "png" THEN Whole(1) ELSE Whole(q)

\* the request's quality without the png case
requestQualityForAnyFormat(fmt, q) == qualityValue(q)

\* quality: format === "png" ? 1 : qualityValue
requestQuality(fmt, q) == IF fmt = "png" THEN Whole(1) ELSE qualityValue(q)

\* the argument of processImage
processImageArgs(f, w, h, fmt, q, cropArea) ==
    [ file |-> f,
      targetWidth |-> w,
      targetHeight |-> h,
      format |-> fmt,
      quality |-> requestQuality(fmt, q),
      cropArea |-> cropArea,          \* croppedAreaPixels ?? undefined
      originalName |-> f ]

\* the guard with < for <=
invalidTargetStrict(w, h) == w[1] < 0 \/ h[1] < 0

\* targetWidth <= 0 || targetHeight <= 0
invalidTarget(w, h) == RLe(w, Whole(0)) \/ RLe(h, Whole(0))

\* the export button without its disabled attribute
exportAlwaysEnabled == TRUE

\* the export button: disabled={isProcessing}
exportEnabled == ~isProcessing

\* a click on "Compress & export": handleProcess up to its await
handleProcess ==
    /\ CropSectionRendered
    /\ exportEnabled
    /\ UserEvent
    /\ IF file = NULL \/ naturalDimensions = None
       THEN /\ error' = ErrNoImage
            /\ UNCHANGED <<isProcessing, inflight>>
       ELSE IF invalidTarget(targetWidth, targetHeight)
       THEN /\ error' = ErrDimensions
            /\ UNCHANGED <<isProcessing, inflight>>
       ELSE /\ isProcessing' = TRUE
            /\ error' = NULL
            /\ inflight' = inflight \cup
                 { [ id |-> nEvents,
                     req |-> processImageArgs(file, targetWidth, targetHeight, format,
                                              quality, croppedAreaPixels),
                     status |-> "pending" ] }
    /\ UNCHANGED <<file, imageUrl, naturalDimensions, croppedAreaPixels, targetWidth,
                   targetHeight, maintainAspect, quality, format, processed,
                   pendingLoads, reportedCrop>>

\* processImage lives in lib/processImage: its promise resolves with the encoded
\* result or rejects, with an Error or with some other value.  The promise
\* settling and handleProcess resuming after its await are two steps; the
\* call stays in inflight until handleProcess has resumed.
SettleOutcomes == {"resolved", "rejectedError", "rejectedOther"}

MimeOf(fmt) ==
    CASE fmt = "jpeg" -> "image/jpeg"
      [] fmt = "png"  -> "image/png"
      [] fmt = "webp" -> "image/webp"
      [] OTHER        -> "application/pdf"

processImageResult(req) ==
    [ source |-> req.file,
      width |-> req.targetWidth,
      height |-> req.targetHeight,
      mimeType |-> MimeOf(req.format) ]

processImageSettles(p, outcome) ==
    /\ p \in inflight
    /\ p.status = "pending"
    /\ inflight' = (inflight \ {p}) \cup {[p EXCEPT !.status = outcome]}
    /\ UNCHANGED <<file, imageUrl, naturalDimensions, croppedAreaPixels, targetWidth,
                   targetHeight, maintainAspect, quality, format, isProcessing, error,
                   processed, pendingLoads, reportedCrop, nEvents>>

\* setProcessed({...result})
storeResult(p) == processed' = Some(processImageResult(p.req))

\* a catch block that only logs
catchErrorSwallowed(p) == UNCHANGED error

\* the catch block
catchError(p) ==
    error' = IF p.status = "rejectedError" THEN ErrPipeline ELSE ErrFallback

\* handleProcess after its await: try, catch, finally
handleProcessResume(p) ==
    /\ p \in inflight
    /\ p.status # "pending"
    /\ inflight' = inflight \ {p}
    /\ IF p.status = "resolved"
       THEN storeResult(p) /\ UNCHANGED error
       ELSE catchError(p) /\ UNCHANGED processed
    /\ isProcessing' = FALSE
    /\ UNCHANGED <<file, imageUrl, naturalDimensions, croppedAreaPixels, targetWidth,
                   targetHeight, maintainAspect, quality, format, pendingLoads,
                   reportedCrop, nEvents>>

\* ---------------------------------------------------------------- result panel
\* what the section under {processed && ...} shows in its preview pane:
\* format === "pdf" ? the placeholder : the <img> of processed.previewUrl
resultPanel ==
    IF processed = None THEN "hidden"
    ELSE IF format = "pdf" THEN "pdfPlaceholder"
    ELSE "imagePreview"

\* ---------------------------------------------------------------- specifications
Events(qualities) ==
    \/ \E f \in Files : handleFileChange(f)
    \/ \E f \in ImageFiles : imageOnLoad(f)
    \/ \E f \in ImageFiles : imageOnError(f)
    \/ \E v \in DimensionInputs : handleWidthChange(v)
    \/ \E v \in DimensionInputs : handleHeightChange(v)
    \/ \E b \in BOOLEAN : setMaintainAspect(b)
    \/ \E q \in qualities : setQuality(q)
    \/ \E fmt \in OUTPUT_FORMATS : setFormat(fmt)
    \/ \E c \in CropRects : onCropComplete(c)
    \/ handleProcess
    \/ \E p \in inflight, o \in SettleOutcomes : processImageSettles(p, o)
    \/ \E p \in inflight : handleProcessResume(p)

\* the component in a browser: the slider delivers values within its range
Next == Events(SliderValues)
Spec == Init /\ [][Next]_vars

\* the same component with setQuality fed any number
NextAnyQuality == Events(AnyQualityValues)
SpecAnyQuality == Init /\ [][NextAnyQuality]_vars

\* ---------------------------------------------------------------- claims
Rejected(p) == p.status \in {"rejectedError", "rejectedOther"}
\* the calls of processImage made in this step
NewCalls == {p \in inflight' : p.status = "pending" /\ p \notin inflight}
IsWholeAtLeastOne(r) == r[2] = 1 /\ r[1] >= 1

\* C1: an export click while the target width or the target height is <= 0 sets
\* a non-null error, calls processImage for nothing, leaves isProcessing false
\* and leaves the stored result as it was.
C1_InvalidTargetRejected ==
    [][ (handleProcess /\ (targetWidth[1] <= 0 \/ targetHeight[1] <= 0))
        => /\ error' # NULL
           /\ inflight' = inflight
           /\ ~isProcessing /\ ~isProcessing'
           /\ processed' = processed ]_vars

C1_Witness ==
    /\ error = ErrDimensions
    /\ file # NULL /\ naturalDimensions # None
    /\ targetWidth[1] <= 0 \/ targetHeight[1] <= 0
    /\ inflight = {} /\ ~isProcessing

\* C2: a stored result was always produced from the currently selected file.
C2_ProcessedFromCurrentFile ==
    processed # None => processed[1].source = file

C4_OnlyImagesReachPipeline ==
    \A p \in inflight : FileType(p.req.file)[1] = "image"

\* C5: when processImage rejects, handleProcess sets a non-null error, makes no
\* further call of processImage and stores no result.
C5_RejectionSurfacedOnce ==
    [][ \A p \in inflight : (Rejected(p) /\ p \notin inflight')
          => /\ error' # NULL
             /\ processed' = processed
             /\ inflight' \subseteq inflight ]_vars

C5_Witness ==
    /\ error \in {ErrPipeline, ErrFallback}
    /\ inflight = {} /\ ~isProcessing /\ processed = None

\* C6: in every request handed to processImage the target width and the target
\* height are integers >= 1.
C6_TargetsPositiveIntegers ==
    \A p \in inflight :
        IsWholeAtLeastOne(p.req.targetWidth) /\ IsWholeAtLeastOne(p.req.targetHeight)

\* C7: a png request is the request every other value of the quality state
\* would have produced.
C7_PngIgnoresQuality ==
    \A p \in inflight : p.req.format = "png" =>
        \A q \in AnyQualityValues :
            processImageArgs(p.req.file, p.req.targetWidth, p.req.targetHeight,
                             "png", q, p.req.cropArea) = p.req

C7_Witness ==
    \E p \in inflight :
        p.status = "pending" /\ p.req.format = "png" /\ quality # InitialQuality

\* C8: the quality of every request handed to processImage lies in [0,1].
C8_QualityInUnitInterval ==
    \A p \in inflight :
        0 <= p.req.quality[1] /\ p.req.quality[1] <= p.req.quality[2]

C8_Witness ==
    \E p \in inflight :
        /\ p.status = "pending" /\ p.req.format # "png"
        /\ quality > 100 /\ p.req.quality = Whole(1)

\* C9: a request carries no crop rectangle if the cropper has reported none
\* since the current file was selected, and the last one reported otherwise.
C9_CropIsLastReported ==
    [][ \A p \in NewCalls : p.req.cropArea = reportedCrop ]_vars

C9_Witness ==
    \E p \in inflight :
        /\ p.status = "pending"
        /\ p.req.cropArea # None /\ p.req.cropArea = reportedCrop
        /\ p.req.file = file

\* C10: at most one processImage call is in flight, and isProcessing is true
\* exactly while one is: it is false again once handleProcess has resumed.
C10_OneInvocationInFlight ==
    /\ Cardinality(inflight) <= 1
    /\ isProcessing <=> inflight # {}

C10_Witness ==
    isProcessing /\ \E p \in inflight : p.status # "pending" /\ p.req.file # file

\* x is the integer nearest to value * num / den, halves upwards:
\* x - 1/2 <= value * num / den < x + 1/2
IsNearestInteger(x, value, num, den) ==
    /\ x[2] = 1
    /\ (2 * x[1] - 1) * value[2] * den <= 2 * value[1] * num
    /\ 2 * value[1] * num < (2 * x[1] + 1) * value[2] * den

\* C11: with an image loaded, handleWidthChange(v) sets targetWidth to v and,
\* under the aspect lock, targetHeight to round(v * naturalHeight / naturalWidth),
\* and handleHeightChange(v) sets targetHeight to v and, under the lock,
\* targetWidth to round(v * naturalWidth / naturalHeight); without the lock the
\* other dimension stays; with no image loaded no user event changes either.
C11_AspectLockedEdits ==
    [][ /\ \A v \in DimensionInputs : handleWidthChange(v) =>
              /\ targetWidth' = v
              /\ maintainAspect =>
                    IsNearestInteger(targetHeight', v, naturalDimensions[1].height,
                                     naturalDimensions[1].width)
              /\ ~maintainAspect => targetHeight' = targetHeight
        /\ \A v \in DimensionInputs : handleHeightChange(v) =>
              /\ targetHeight' = v
              /\ maintainAspect =>
                    IsNearestInteger(targetWidth', v, naturalDimensions[1].width,
                                     naturalDimensions[1].height)
              /\ ~maintainAspect => targetWidth' = targetWidth
        /\ (naturalDimensions = None /\ nEvents' # nEvents) =>
              (targetWidth' = targetWidth /\ targetHeight' = targetHeight) ]_vars

\* a width of 3/2 typed under the lock on the 2x1 image: the height is round(3/4) = 1
C11_Witness ==
    /\ naturalDimensions = Some([width |-> 2, height |-> 1])
    /\ maintainAspect
    /\ targetWidth = <<3, 2>> /\ targetHeight = Whole(1)

\* C12: handleProcess starts an invocation for a file only while
\* naturalDimensions is the decoded size of that file.
C12_DimensionsOfCurrentFile ==
    [][ \A p \in NewCalls :
          /\ Decodes(p.req.file)
          /\ naturalDimensions = Some([width |-> NaturalWidth(p.req.file),
                                       height |-> NaturalHeight(p.req.file)]) ]_vars

\* C13: the result panel shows the PDF placeholder exactly when the stored
\* result's mimeType is application/pdf, and the image preview otherwise.
C13_PanelFollowsStoredResult ==
    processed # None =>
        /\ resultPanel = "pdfPlaceholder" <=> processed[1].mimeType = "application/pdf"
        /\ resultPanel = "imagePreview" <=> processed[1].mimeType # "application/pdf"

====
